---- MODULE Spec2Model ----
(***************************************************************************)
(* State-machine model of the kompro attendance backend: the 2FA           *)
(* issuance / verification handlers of routes/user.js and the geofenced    *)
(* check-in / checkout handlers, run as concurrent requests against the    *)
(* PostgreSQL tables "User", user_2fa_codes, "Locations" and "Attendance". *)
(* Every await of a handler is one atomic step; steps of different         *)
(* requests interleave freely.                                             *)
(***************************************************************************)
EXTENDS Integers, Sequences, FiniteSets, Bags, TLC

(* ---------------------------- bounds ----------------------------------- *)
\* request slots the server works on at the same time
MaxReq == 2
\* code rows inserted over a whole run
MaxIssued == 2
\* last minute the clock reaches
MaxTime == 2
\* values drawn from the attendance id sequence over a whole run
MaxAttendance == 2
\* last minute the clock reaches when it jumps
MaxLate == 6

(* ------------------------ program constants ---------------------------- *)
\* INTERVAL '5 minutes'
CodeTtlMinutes == 5
\* WHERE location_id = 1 / VALUES ($1, 1, ...
OfficeLocationId == 1
\* radius of the office row of the dump, in metres
SeedRadius == 50

(* --------------------------- JS values --------------------------------- *)
\* a body field is <<>> when the key is absent (undefined) and <<v>> otherwise
Undefined == <<>>

Some(v) == <<v>>

\* !x of JavaScript for a string or a number field
FalsyStr(x) == x = Undefined \/ x[1] = ""

FalsyNum(x) == x = Undefined \/ x[1] = 0

(* ------------------------- request inputs ------------------------------ *)
Emails == {"alice@example.com", "nobody@example.com"}

Passwords == {"hashed_password_1", "hashed_password_2"}

\* values otpGenerator.generate can return
Codes == {"048213", "4ywipk"}

\* user ids a request body can carry (3 belongs to no user)
BodyUserIds == {1, 2, 3}

\* user ids resend-2fa is asked for
ResendUserIds == {1, 3}

Slots == 1..MaxReq

(* ----------------------------- state ----------------------------------- *)
VARIABLES
    now,             \* NOW() of the database, in minutes
    User,            \* rows of table "User"
    user_2fa_codes,  \* rows of table user_2fa_codes, each with its row id
    codeSeq,         \* row ids handed out to user_2fa_codes so far
    outbox,          \* mails accepted by the transporter: <<to, code>>
    req,             \* the request each slot is working on
    last,            \* the response sent last, with what its request saw
    verifiedOn,      \* bag of code-row ids: successful verifications per row
    consumed,        \* finished verifications with no code issued since
    Locations,       \* rows of table "Locations"
    Attendance,      \* rows of table "Attendance"
    attSeq,          \* last value of Attendance_attendance_id_seq
    env              \* the user router that is mounted, and process.env

authVars == <<user_2fa_codes, codeSeq, outbox, verifiedOn, consumed>>

geoVars == <<Locations, Attendance, attSeq>>

vars == <<now, User, env, req, last, authVars, geoVars>>

(* ------------------------- router and process.env ---------------------- *)
\* the two user routers of the repository: routes/user.js, and the router
\* with the instrumented login
MainRouter == "routes/user.js"

DebugRouter == "debug"

\* process.env.EMAIL_USER and process.env.EMAIL_PASS, unset or set
MailEnvs ==
    { [EMAIL_USER |-> u, EMAIL_PASS |-> p] :
        u \in {Undefined, Some("myapp@gmail.com")},
        p \in {Undefined, Some("app-password")} }

\* routes/user.js with both variables set
MainEnv ==
    [router |-> MainRouter, EMAIL_USER |-> Some("myapp@gmail.com"),
     EMAIL_PASS |-> Some("app-password")]

\* !process.env.EMAIL_USER || !process.env.EMAIL_PASS
MailConfigMissing == FalsyStr(env.EMAIL_USER) \/ FalsyStr(env.EMAIL_PASS)

(* ---------------------------- responses -------------------------------- *)
ErrorRes(status, text) == [status |-> status, error |-> text]

LoginMissingFields == ErrorRes(400, "Email and password are required")

LoginNotFound == ErrorRes(401, "User not found")

LoginInvalidPassword == ErrorRes(401, "Invalid password")

LoginFailed == ErrorRes(500, "Login failed")

\* res.status(500).send({ error: "Backend Error: " + err.message })
DebugLoginFailed(message) == ErrorRes(500, "Backend Error: " \o message)

\* err.message of a sendMail the transport rejected
TransportErrors == {"Invalid login", "Connection timeout"}

LoginSuccess(user) ==
    [status |-> 200, message |-> "Login successful, 2FA code sent",
     userId |-> user.user_id, email |-> user.username_email]

VerifyMissingFields == ErrorRes(400, "userId and code are required")

VerifyInvalidOrExpired == ErrorRes(401, "Invalid or expired code")

VerifyFailed == ErrorRes(500, "2FA verification failed")

VerifySuccess(userId, email) ==
    [status |-> 200, message |-> "2FA verified", userId |-> userId,
     email |-> email]

ResendMissingFields == ErrorRes(400, "userId is required")

ResendNotFound == ErrorRes(404, "User not found")

ResendFailed == ErrorRes(500, "Failed to resend 2FA code")

\* the answer of the resend-2fa handler of the instrumented router
DebugResendSuccess == [status |-> 200, message |-> "2FA code resent"]

ResendSuccess(userId, email) ==
    [status |-> 200, message |-> "2FA code resent", userId |-> userId,
     email |-> email]

(* ------------------------------ tables --------------------------------- *)
\* the rows of "User" the handlers read (seed data of the dump)
SeedUsers ==
    { [user_id |-> 1, username_email |-> "alice@example.com",
       password_hash |-> "hashed_password_1"],
      [user_id |-> 2, username_email |-> "bob@example.com",
       password_hash |-> "hashed_password_2"] }

\* SELECT ... FROM "User" WHERE username_email = $1
UsersByEmail(email) == {u \in User : u.username_email = email}

\* SELECT username_email FROM "User" WHERE user_id = $1
UsersById(userId) == {u \in User : u.user_id = userId}

\* the code rows of one user
CodesOf(userId) == {c \in user_2fa_codes : c.user_id = userId}

\* fault: the lookup with expires_at >= NOW()
SelectCodeNotBeforeNow(userId, code) ==
    {c \in user_2fa_codes :
        c.user_id = userId /\ c.code = code /\ c.expires_at >= now}

\* SELECT * FROM user_2fa_codes
\*   WHERE user_id = $1 AND code = $2 AND expires_at > NOW()
SelectActiveCode(userId, code) ==
    {c \in user_2fa_codes :
        c.user_id = userId /\ c.code = code /\ c.expires_at > now}

\* fault: the issuance DELETE removes nothing
DeleteNoCodesOfUser(userId) == user_2fa_codes

\* fault: DELETE FROM user_2fa_codes, without its WHERE
DeleteCodesOfAll(userId) == {}

\* DELETE FROM user_2fa_codes WHERE user_id = $1
DeleteCodesOfUser(userId) == {c \in user_2fa_codes : c.user_id # userId}

\* fault: the verification DELETE removes nothing
DeleteNoCode(userId, code) == user_2fa_codes

\* DELETE FROM user_2fa_codes WHERE user_id = $1 AND code = $2
DeleteCode(userId, code) ==
    {c \in user_2fa_codes : ~(c.user_id = userId /\ c.code = code)}

\* fault: the code lives six minutes
NewCodeRowLongLived(userId, code) ==
    [id |-> codeSeq + 1, user_id |-> userId, code |-> code,
     expires_at |-> now + 6, issued_at |-> now]

\* fault: the code lives four minutes
NewCodeRowShortLived(userId, code) ==
    [id |-> codeSeq + 1, user_id |-> userId, code |-> code,
     expires_at |-> now + 4, issued_at |-> now]

\* the row INSERT INTO user_2fa_codes ... NOW() + INTERVAL '5 minutes' adds;
\* id and issued_at are no columns: they name the row and the time of its
\* INSERT for the properties
NewCodeRow(userId, code) ==
    [id |-> codeSeq + 1, user_id |-> userId, code |-> code,
     expires_at |-> now + CodeTtlMinutes, issued_at |-> now]

\* rows of a user that a verification at the present time would accept
ActiveCodesOf(userId) == {c \in CodesOf(userId) : c.expires_at > now}

(* ----------------------------- requests -------------------------------- *)
\* A slot holds the kind and pc of a request in progress, loc (the handler's
\* locals) and h (what the request has seen so far, kept for the properties).
\* The slot is free again once the handler has answered.
Idle == [kind |-> "idle", pc |-> "idle", loc |-> <<>>, h |-> <<>>]

NoRes == [status |-> 0]

NoLast == [kind |-> "none", res |-> NoRes, h |-> <<>>]

Free(r) ==
    /\ req[r].kind = "idle"
    /\ \A s \in Slots : s < r => req[s].kind # "idle"

\* res.status(...).send(...): the handler of slot r answers and ends
Respond(r, kind, res, h) ==
    /\ last' = [kind |-> kind, res |-> res, h |-> h]
    /\ req' = [req EXCEPT ![r] = Idle]

IsIssuance(q) == q.kind \in {"login", "resend"}

\* an issuance request that has read its user and not yet answered
IssuanceInProgress(q) ==
    IsIssuance(q) /\ q.pc \in {"delete_codes", "insert_code", "send_mail"}

\* issuance requests that may still insert a code row
PendingInserts ==
    Cardinality({s \in Slots : IsIssuance(req[s]) /\ req[s].pc # "send_mail"})

\* a new issuance request is accepted while the run may insert another row
MayIssue == codeSeq + PendingInserts < MaxIssued

IssuanceH == [known |-> FALSE, pwOk |-> FALSE, raced |-> FALSE,
              stale |-> FALSE, sent |-> "none", steps |-> <<>>,
              persisted |-> FALSE]

\* what an INSERT of a code row for uid means for the request q of another
\* slot: an issuance between its DELETE and its INSERT has been overtaken,
\* and a verification past its DELETE has seen a code issued since
OnInsert(q, uid) ==
    IF IsIssuance(q) /\ q.pc = "insert_code" /\ q.loc.uid = uid
    THEN [q EXCEPT !.h.raced = TRUE]
    ELSE IF q.kind = "verify" /\ q.pc = "select_email" /\ q.loc.uid = uid
    THEN [q EXCEPT !.h.issuedSinceDelete = TRUE]
    ELSE q

\* rows of uid, other than the new one, that still verify a different code
StaleCodes(rows, uid, new) ==
    {c \in rows : c.user_id = uid /\ c.id # new.id /\ c.code # new.code
                  /\ c.expires_at > now}

\* the DELETE of an issuance request in slot r
DeletePriorCodes(r) ==
    /\ user_2fa_codes' = DeleteCodesOfUser(req[r].loc.uid)
    /\ req' = [req EXCEPT ![r] =
                 [@ EXCEPT !.pc = "insert_code",
                           !.h.steps = Append(@, "delete")]]

\* the INSERT of an issuance request in slot r, as every slot sees it; the
\* code otpGenerator.generate returned is drawn here, where it is first used
InsertCode(r) ==
    \E code \in Codes :
      LET uid == req[r].loc.uid
          new == NewCodeRow(uid, code)
      IN /\ user_2fa_codes' = user_2fa_codes \cup {new}
         /\ codeSeq' = codeSeq + 1
         /\ consumed' = {k \in consumed : k.user_id # uid}
         /\ req' = [s \in Slots |->
                      IF s = r
                      THEN [req[r] EXCEPT
                              !.pc = "send_mail",
                              !.loc.code = code,
                              !.h.stale =
                                 StaleCodes(user_2fa_codes', uid, new) # {},
                              !.h.steps = Append(@, "persist"),
                              !.h.persisted =
                                 \E c \in user_2fa_codes' \ user_2fa_codes :
                                    /\ c.user_id = uid /\ c.code = code
                                    /\ c.expires_at = now + 5]
                      ELSE OnInsert(req[s], uid)]

(* ------------------------- POST /user/login ---------------------------- *)
\* if (!email || !password)
LoginFieldsMissing(email, password) == FalsyStr(email) \/ FalsyStr(password)

\* fault: the password comparison is skipped
PasswordNeverMismatch(user, password) == FALSE

\* user.password_hash !== password
PasswordMismatch(user, password) == user.password_hash # password

\* fault: a rejected sendMail is swallowed
LoginAfterSendSwallowed(user, delivered) == LoginSuccess(user)

\* the answer once transporter.sendMail has settled
LoginAfterSend(user, delivered) ==
    IF delivered THEN LoginSuccess(user) ELSE LoginFailed

\* err.message of an INSERT that user_2fa_codes_user_id_fkey rejects
CodeUserFkMessage ==
    "insert or update on table \"user_2fa_codes\" violates foreign key " \o
    "constraint \"user_2fa_codes_user_id_fkey\""

\* the catch clause of the login handler that is mounted
LoginCatch(message) ==
    IF env.router = MainRouter THEN LoginFailed
                               ELSE DebugLoginFailed(message)

\* the request arrives and runs up to the answer of its SELECT on "User"
LoginSelectUser(r, email, password) ==
    /\ Free(r)
    /\ IF LoginFieldsMissing(email, password)
       THEN Respond(r, "login", LoginMissingFields, IssuanceH)
       ELSE LET rows == UsersByEmail(email[1])
                h == [IssuanceH EXCEPT
                        !.known = \E u \in User : u.username_email = email[1],
                        !.pwOk = \E u \in User :
                                    /\ u.username_email = email[1]
                                    /\ u.password_hash = password[1]]
            IN IF rows = {}
               THEN Respond(r, "login", LoginNotFound, h)
               ELSE LET user == CHOOSE u \in rows : TRUE
                    IN IF PasswordMismatch(user, password[1])
                       THEN Respond(r, "login", LoginInvalidPassword, h)
                       ELSE /\ MayIssue
                            /\ req' = [req EXCEPT ![r] =
                                         [kind |-> "login",
                                          pc |-> "delete_codes",
                                          loc |-> [uid |-> user.user_id,
                                                   to |-> user.username_email,
                                                   code |-> ""],
                                          h |-> [h EXCEPT !.steps =
                                                            <<"generate">>]]]
                            /\ UNCHANGED last
    /\ UNCHANGED <<now, User, env, user_2fa_codes, codeSeq, outbox, verifiedOn,
                   consumed, geoVars>>

LoginDeleteCodes(r) ==
    /\ req[r].kind = "login" /\ req[r].pc = "delete_codes"
    /\ DeletePriorCodes(r)
    /\ UNCHANGED <<now, User, env, codeSeq, outbox, last, verifiedOn, consumed, geoVars>>

\* user_2fa_codes_user_id_fkey rejects a row whose user is gone
LoginInsertCode(r) ==
    /\ req[r].kind = "login" /\ req[r].pc = "insert_code"
    /\ IF UsersById(req[r].loc.uid) = {}
       THEN /\ Respond(r, "login", LoginCatch(CodeUserFkMessage), req[r].h)
            /\ UNCHANGED <<user_2fa_codes, codeSeq, consumed>>
       ELSE InsertCode(r) /\ UNCHANGED last
    /\ UNCHANGED <<now, User, env, outbox, verifiedOn, geoVars>>

\* what the request saw of its sendMail
SentAs(delivered) ==
    IF delivered THEN "ok"
    ELSE IF MailConfigMissing THEN "unconfigured" ELSE "failed"

\* fault: a login whose mail fails takes its code back
LoginSendMailRollsBack(r) ==
    /\ env.router = MainRouter
    /\ req[r].kind = "login" /\ req[r].pc = "send_mail"
    /\ \E delivered \in BOOLEAN :
         /\ delivered => ~MailConfigMissing
         /\ outbox' = IF delivered
                      THEN outbox \cup {<<req[r].loc.to, req[r].loc.code>>}
                      ELSE outbox
         /\ user_2fa_codes' = IF delivered THEN user_2fa_codes
                              ELSE DeleteCode(req[r].loc.uid, req[r].loc.code)
         /\ Respond(r, "login",
                    LoginAfterSend([user_id |-> req[r].loc.uid,
                                    username_email |-> req[r].loc.to],
                                   delivered),
                    [req[r].h EXCEPT
                       !.sent = SentAs(delivered),
                       !.steps = Append(@, "deliver")])
    /\ UNCHANGED <<now, User, env, codeSeq, verifiedOn, consumed, geoVars>>

\* createTransport takes the credentials as they are; the transport accepts
\* no mail without them
LoginSendMail(r) ==
    /\ env.router = MainRouter
    /\ req[r].kind = "login" /\ req[r].pc = "send_mail"
    /\ \E delivered \in BOOLEAN :
         /\ delivered => ~MailConfigMissing
         /\ outbox' = IF delivered
                      THEN outbox \cup {<<req[r].loc.to, req[r].loc.code>>}
                      ELSE outbox
         /\ Respond(r, "login",
                    LoginAfterSend([user_id |-> req[r].loc.uid,
                                    username_email |-> req[r].loc.to],
                                   delivered),
                    [req[r].h EXCEPT
                       !.sent = SentAs(delivered),
                       !.steps = Append(@, "deliver")])
    /\ UNCHANGED <<now, User, env, user_2fa_codes, codeSeq, verifiedOn,
                   consumed, geoVars>>

\* the send step of the instrumented login: the configuration test, then
\* sendMail, and a catch clause that forwards err.message
DebugLoginSendMail(r) ==
    /\ env.router = DebugRouter
    /\ req[r].kind = "login" /\ req[r].pc = "send_mail"
    /\ IF MailConfigMissing
       THEN /\ UNCHANGED outbox
            /\ Respond(r, "login",
                       DebugLoginFailed("Email configuration missing"),
                       [req[r].h EXCEPT !.sent = "unconfigured"])
       ELSE \E delivered \in BOOLEAN, message \in TransportErrors :
              /\ outbox' = IF delivered
                           THEN outbox \cup
                                  {<<req[r].loc.to, req[r].loc.code>>}
                           ELSE outbox
              /\ Respond(r, "login",
                         IF delivered
                         THEN LoginSuccess([user_id |-> req[r].loc.uid,
                                            username_email |-> req[r].loc.to])
                         ELSE DebugLoginFailed(message),
                         [req[r].h EXCEPT
                            !.sent = SentAs(delivered),
                            !.steps = Append(@, "deliver")])
    /\ UNCHANGED <<now, User, env, user_2fa_codes, codeSeq, verifiedOn, consumed, geoVars>>

(* ----------------------- POST /user/resend-2fa ------------------------- *)
\* the answer once transporter.sendMail has settled
ResendAfterSend(userId, email, delivered) ==
    IF delivered THEN ResendSuccess(userId, email) ELSE ResendFailed

\* the request arrives and runs up to the answer of its SELECT on "User"
ResendSelectUser(r, userId) ==
    /\ env.router = MainRouter
    /\ Free(r)
    /\ IF FalsyNum(userId)
       THEN Respond(r, "resend", ResendMissingFields, IssuanceH)
       ELSE LET rows == UsersById(userId[1])
            IN IF rows = {}
               THEN Respond(r, "resend", ResendNotFound, IssuanceH)
               ELSE /\ MayIssue
                    /\ req' = [req EXCEPT ![r] =
                                 [kind |-> "resend", pc |-> "delete_codes",
                                  loc |-> [uid |-> userId[1],
                                           to |-> (CHOOSE u \in rows : TRUE).username_email,
                                           code |-> ""],
                                  h |-> [IssuanceH EXCEPT
                                           !.known = TRUE,
                                           !.steps = <<"generate">>]]]
                    /\ UNCHANGED last
    /\ UNCHANGED <<now, User, env, user_2fa_codes, codeSeq, outbox, verifiedOn,
                   consumed, geoVars>>

ResendDeleteCodes(r) ==
    /\ req[r].kind = "resend" /\ req[r].pc = "delete_codes"
    /\ DeletePriorCodes(r)
    /\ UNCHANGED <<now, User, env, codeSeq, outbox, last, verifiedOn, consumed, geoVars>>

ResendInsertCode(r) ==
    /\ req[r].kind = "resend" /\ req[r].pc = "insert_code"
    /\ IF UsersById(req[r].loc.uid) = {}
       THEN /\ Respond(r, "resend", ResendFailed, req[r].h)
            /\ UNCHANGED <<user_2fa_codes, codeSeq, consumed>>
       ELSE InsertCode(r) /\ UNCHANGED last
    /\ UNCHANGED <<now, User, env, outbox, verifiedOn, geoVars>>

ResendSendMail(r) ==
    /\ req[r].kind = "resend" /\ req[r].pc = "send_mail"
    /\ \E delivered \in BOOLEAN :
         /\ delivered => ~MailConfigMissing
         /\ outbox' = IF delivered
                      THEN outbox \cup {<<req[r].loc.to, req[r].loc.code>>}
                      ELSE outbox
         /\ Respond(r, "resend",
                    ResendAfterSend(req[r].loc.uid, req[r].loc.to, delivered),
                    [req[r].h EXCEPT
                       !.sent = SentAs(delivered),
                       !.steps = Append(@, "deliver")])
    /\ UNCHANGED <<now, User, env, user_2fa_codes, codeSeq, verifiedOn, consumed, geoVars>>

\* resend-2fa of the instrumented router: it reads userId and answers
DebugResend(r, userId) ==
    /\ env.router = DebugRouter
    /\ Free(r)
    /\ Respond(r, "resend", DebugResendSuccess,
               [IssuanceH EXCEPT
                  !.known = userId # Undefined /\ UsersById(userId[1]) # {}])
    /\ UNCHANGED <<now, User, env, authVars, geoVars>>

(* ----------------------- POST /user/verify-2fa ------------------------- *)
\* if (!userId || !code)
VerifyFieldsMissing(userId, code) == FalsyNum(userId) \/ FalsyStr(code)

\* how the stored rows stand to a submitted code: a row with that code not
\* yet expired, only expired rows with that code, only rows with other
\* codes, or no row of the user at all
VerifyCase(uid, code) ==
    LET mine == {c \in user_2fa_codes : c.user_id = uid}
    IN  IF \E c \in mine : c.code = code /\ now < c.expires_at THEN "match"
        ELSE IF \E c \in mine : c.code = code THEN "expired"
        ELSE IF mine # {} THEN "wrong"
        ELSE "none"

VerifyH == [fresh |-> FALSE, expired |-> FALSE, followsDone |-> FALSE,
            followsDelete |-> FALSE, issuedSinceDelete |-> FALSE,
            live |-> FALSE, late |-> FALSE, case |-> "fields"]

\* fault: a lookup that finds nothing removes the codes of the user
VerifySelectCodeBurns(r, userId, code) ==
    /\ Free(r)
    /\ IF VerifyFieldsMissing(userId, code)
       THEN /\ Respond(r, "verify", VerifyMissingFields, VerifyH)
            /\ UNCHANGED user_2fa_codes
       ELSE LET uid == userId[1]
                rows == SelectActiveCode(uid, code[1])
                h == [VerifyH EXCEPT !.case = VerifyCase(uid, code[1])]
            IN IF rows = {}
               THEN /\ Respond(r, "verify", VerifyInvalidOrExpired, h)
                    /\ user_2fa_codes' = DeleteCodesOfUser(uid)
               ELSE /\ req' = [req EXCEPT ![r] =
                                 [kind |-> "verify", pc |-> "delete_code",
                                  loc |-> [uid |-> uid, code |-> code[1],
                                           matched |-> {c.id : c \in rows}],
                                  h |-> h]]
                    /\ UNCHANGED <<last, user_2fa_codes>>
    /\ UNCHANGED <<now, User, env, codeSeq, outbox, verifiedOn, consumed,
                   geoVars>>

\* the request arrives and runs up to the answer of its SELECT on
\* user_2fa_codes
VerifySelectCode(r, userId, code) ==
    /\ Free(r)
    /\ IF VerifyFieldsMissing(userId, code)
       THEN Respond(r, "verify", VerifyMissingFields, VerifyH)
       ELSE LET uid == userId[1]
                rows == SelectActiveCode(uid, code[1])
                same == {c \in user_2fa_codes :
                           c.user_id = uid /\ c.code = code[1]}
                since == {k \in consumed :
                            k.user_id = uid /\ k.code = code[1]}
                h == [VerifyH EXCEPT
                        !.fresh = \E c \in same : c.expires_at > now,
                        !.expired = \E c \in same : c.expires_at <= now,
                        !.followsDone = \E k \in since : k.quiet,
                        !.followsDelete = \E k \in since : k.sinceDelete,
                        !.case = VerifyCase(uid, code[1]),
                        !.live = \E c \in same : now < c.issued_at + 5,
                        !.late = \E c \in same :
                                    /\ now < c.issued_at + 5
                                    /\ now >= c.issued_at + 4]
            IN IF rows = {}
               THEN Respond(r, "verify", VerifyInvalidOrExpired, h)
               ELSE /\ req' = [req EXCEPT ![r] =
                                 [kind |-> "verify", pc |-> "delete_code",
                                  loc |-> [uid |-> uid, code |-> code[1],
                                           matched |-> {c.id : c \in rows}],
                                  h |-> h]]
                    /\ UNCHANGED last
    /\ UNCHANGED <<now, User, env, user_2fa_codes, codeSeq, outbox, verifiedOn,
                   consumed, geoVars>>

VerifyDeleteCode(r) ==
    /\ req[r].kind = "verify" /\ req[r].pc = "delete_code"
    /\ user_2fa_codes' = DeleteCode(req[r].loc.uid, req[r].loc.code)
    /\ req' = [req EXCEPT ![r] = [@ EXCEPT !.pc = "select_email"]]
    /\ UNCHANGED <<now, User, env, codeSeq, outbox, last, verifiedOn, consumed, geoVars>>

\* userResult.rows[0].username_email throws when the user row is gone
VerifySelectEmail(r) ==
    /\ req[r].kind = "verify" /\ req[r].pc = "select_email"
    /\ LET rows == UsersById(req[r].loc.uid)
       IN IF rows = {}
          THEN /\ Respond(r, "verify", VerifyFailed, req[r].h)
               /\ UNCHANGED <<verifiedOn, consumed>>
          ELSE /\ Respond(r, "verify",
                          VerifySuccess(req[r].loc.uid,
                             (CHOOSE u \in rows : TRUE).username_email),
                          req[r].h)
               /\ verifiedOn' = verifiedOn (+) SetToBag(req[r].loc.matched)
               /\ consumed' = consumed \cup
                    {[user_id |-> req[r].loc.uid, code |-> req[r].loc.code,
                      sinceDelete |-> ~req[r].h.issuedSinceDelete,
                      quiet |-> \A s \in Slots :
                                  ~(IssuanceInProgress(req[s])
                                    /\ req[s].loc.uid = req[r].loc.uid)]}
    /\ UNCHANGED <<now, User, env, user_2fa_codes, codeSeq, outbox, geoVars>>

(* ------------------------------ clock ---------------------------------- *)
Tick ==
    /\ now < MaxTime
    /\ now' = now + 1
    /\ UNCHANGED <<User, env, user_2fa_codes, codeSeq, outbox, req, last,
                   verifiedOn, consumed, geoVars>>

\* four minutes pass at once
LateTick ==
    /\ now + 4 <= MaxLate
    /\ now' = now + 4
    /\ UNCHANGED <<User, env, user_2fa_codes, codeSeq, outbox, req, last,
                   verifiedOn, consumed, geoVars>>

(* --------------------- the authentication system ----------------------- *)
\* the row of user 2 left in the dump, expired when the server starts
SeedCodes ==
    { [id |-> 0, user_id |-> 2, code |-> "4ywipk", expires_at |-> 0,
       issued_at |-> -5] }

OptEmails == {Undefined} \cup {Some(e) : e \in Emails}

OptPasswords == {Undefined} \cup {Some(p) : p \in Passwords}

OptUserIds == {Undefined} \cup {Some(u) : u \in BodyUserIds}

OptResendUserIds == {Undefined} \cup {Some(u) : u \in ResendUserIds}

OptCodes == {Undefined} \cup {Some(c) : c \in Codes}

InitAuth ==
    /\ now = 0
    /\ User = SeedUsers
    /\ env = MainEnv
    /\ user_2fa_codes = SeedCodes
    /\ codeSeq = 0
    /\ outbox = {}
    /\ req = [r \in Slots |-> Idle]
    /\ last = NoLast
    /\ verifiedOn = EmptyBag
    /\ consumed = {}
    /\ Locations = {}
    /\ Attendance = {}
    /\ attSeq = 0

NextAuth ==
    \/ Tick
    \/ \E r \in Slots :
         \/ \E email \in OptEmails, password \in OptPasswords :
              LoginSelectUser(r, email, password)
         \/ LoginDeleteCodes(r)
         \/ LoginInsertCode(r)
         \/ LoginSendMail(r)
         \/ \E userId \in OptResendUserIds : ResendSelectUser(r, userId)
         \/ ResendDeleteCodes(r)
         \/ ResendInsertCode(r)
         \/ ResendSendMail(r)
         \/ \E userId \in OptUserIds, code \in OptCodes :
              VerifySelectCode(r, userId, code)
         \/ VerifyDeleteCode(r)
         \/ VerifySelectEmail(r)

SpecAuth == InitAuth /\ [][NextAuth]_vars

(* ----------------- the life of a code, up to its expiry ---------------- *)
NextExpiry ==
    \/ Tick
    \/ LateTick
    \/ \E r \in Slots :
         \/ LoginSelectUser(r, Some("alice@example.com"),
                            Some("hashed_password_1"))
         \/ LoginDeleteCodes(r)
         \/ LoginInsertCode(r)
         \/ LoginSendMail(r)
         \/ ResendSelectUser(r, Some(1))
         \/ ResendDeleteCodes(r)
         \/ ResendInsertCode(r)
         \/ ResendSendMail(r)
         \/ \E code \in Codes : VerifySelectCode(r, Some(1), Some(code))
         \/ VerifyDeleteCode(r)
         \/ VerifySelectEmail(r)

SpecExpiry == InitAuth /\ [][NextExpiry]_vars

(* ------------- issuance under either router and any process.env ------- *)
InitIssue ==
    /\ now = 0
    /\ User = SeedUsers
    /\ env \in { [router |-> ro, EMAIL_USER |-> m.EMAIL_USER,
                  EMAIL_PASS |-> m.EMAIL_PASS] :
                    ro \in {MainRouter, DebugRouter}, m \in MailEnvs }
    /\ user_2fa_codes = SeedCodes
    /\ codeSeq = 0
    /\ outbox = {}
    /\ req = [r \in Slots |-> Idle]
    /\ last = NoLast
    /\ verifiedOn = EmptyBag
    /\ consumed = {}
    /\ Locations = {}
    /\ Attendance = {}
    /\ attSeq = 0

NextIssue ==
    \/ Tick
    \/ \E r \in Slots :
         \/ \E email \in OptEmails, password \in OptPasswords :
              LoginSelectUser(r, email, password)
         \/ LoginDeleteCodes(r)
         \/ LoginInsertCode(r)
         \/ LoginSendMail(r)
         \/ DebugLoginSendMail(r)
         \/ \E userId \in OptResendUserIds : ResendSelectUser(r, userId)
         \/ ResendDeleteCodes(r)
         \/ ResendInsertCode(r)
         \/ ResendSendMail(r)
         \/ \E userId \in OptResendUserIds : DebugResend(r, userId)

SpecIssue == InitIssue /\ [][NextIssue]_vars

(* ------- issuance and verification, one request at a time, ------------ *)
(* ------- under either router and any process.env           ------------ *)
NextUndelivered ==
    \/ Tick
    \/ LateTick
    \/ LoginSelectUser(1, Some("alice@example.com"), Some("hashed_password_1"))
    \/ LoginDeleteCodes(1)
    \/ LoginInsertCode(1)
    \/ LoginSendMail(1)
    \/ DebugLoginSendMail(1)
    \/ ResendSelectUser(1, Some(1))
    \/ ResendDeleteCodes(1)
    \/ ResendInsertCode(1)
    \/ ResendSendMail(1)
    \/ DebugResend(1, Some(1))
    \/ \E code \in Codes : VerifySelectCode(1, Some(1), Some(code))
    \/ VerifyDeleteCode(1)
    \/ VerifySelectEmail(1)

SpecUndelivered == InitIssue /\ [][NextUndelivered]_vars

(* ===================== attendance and the geofence ===================== *)
\* SQL NULL in a nullable column
Null == <<>>

\* positions are plane coordinates in metres around the office row of the
\* dump, which sits at the origin
CheckKinds == {"check-in", "checkout"}

Abs(x) == IF x < 0 THEN -x ELSE x

\* integer square root, searched below hi
ISqrt(n, hi) == CHOOSE k \in 0..hi : k * k <= n /\ (k + 1) * (k + 1) > n

\* distance in metres between two positions; 0 for identical positions
getDistanceInMeters(lat1, lon1, lat2, lon2) ==
    LET dLat == Abs(lat2 - lat1)
        dLon == Abs(lon2 - lon1)
    IN  ISqrt(dLat * dLat + dLon * dLon, dLat + dLon)

CheckMissingFields ==
    ErrorRes(400, "userId, userLatitude, and userLongitude are required")

\* fault: a missing office answered as a validation error
CheckOfficeNotFoundAsMissing == CheckMissingFields

CheckOfficeNotFound == ErrorRes(500, "Office location not found")

CheckOutside(kind) ==
    ErrorRes(403, IF kind = "check-in"
                  THEN "You are outside the allowed check-in area"
                  ELSE "You are outside the allowed checkout area")

CheckFailed(kind) ==
    ErrorRes(500, IF kind = "check-in" THEN "Failed to record check-in"
                                       ELSE "Failed to record checkout")

CheckSuccess(kind, row) ==
    [status |-> 200,
     message |-> IF kind = "check-in" THEN "Check-in recorded"
                                      ELSE "Checkout recorded",
     attendanceId |-> row.attendance_id,
     timestamp |-> row.timestamp]

SetOfficeMissingFields ==
    ErrorRes(400, "locationName, latitude, longitude, and radius are required")

SetOfficeFailed == ErrorRes(500, "Failed to set office location")

SetOfficeSuccess(b) ==
    [status |-> 200, success |-> TRUE, locationId |-> OfficeLocationId,
     locationName |-> b.locationName[1], latitude |-> b.latitude[1],
     longitude |-> b.longitude[1], radius |-> b.radius[1]]

\* the office row of the dump
SeedOffice ==
    [location_id |-> OfficeLocationId,
     location_name |-> "Telkom University Bandung",
     latitude |-> 0, longitude |-> 0, radius |-> SeedRadius, created_at |-> 0]

\* SELECT ... FROM "Locations" WHERE location_id = 1
SelectOffice == {l \in Locations : l.location_id = OfficeLocationId}

\* fault: !userId || !userLatitude || !userLongitude
CheckFieldsFalsy(userId, userLatitude, userLongitude) ==
    FalsyNum(userId) \/ FalsyNum(userLatitude) \/ FalsyNum(userLongitude)

\* !userId || userLatitude == null || userLongitude == null
CheckFieldsMissing(userId, userLatitude, userLongitude) ==
    FalsyNum(userId) \/ userLatitude = Undefined \/ userLongitude = Undefined

\* fault: the fence is one metre too wide
OutsideAreaLax(distance, radius) == distance > radius + 1

\* distance > office.radius
OutsideArea(distance, radius) == distance > radius

\* fault: the note is dropped
NotesAlwaysNull(notes) == Null

\* notes || null
NotesOrNull(notes) == IF FalsyStr(notes) THEN Null ELSE notes

\* the row INSERT INTO "Attendance" builds for the body b
NewAttendanceRow(kind, b) ==
    [attendance_id |-> attSeq + 1,
     user_id |-> b.userId[1],
     location_id |-> OfficeLocationId,
     type |-> kind,
     timestamp |-> now,
     user_latitude |-> b.userLatitude[1],
     user_longitude |-> b.userLongitude[1],
     status |-> Null,
     notes |-> NotesOrNull(b.notes)]

\* check-in/checkout requests that have yet to draw an attendance id
PendingAttendance ==
    Cardinality({s \in Slots : req[s].pc = "insert_attendance"})

MayAttend == attSeq + PendingAttendance < MaxAttendance

CheckH ==
    [valid |-> FALSE, office |-> FALSE, distance |-> 0, radius |-> 0,
     userExists |-> FALSE]

\* fault: the INSERT takes the place of the user's earlier rows
ReplaceAttendance(row) ==
    {a \in Attendance : a.user_id # row.user_id} \cup {row}

\* INSERT INTO "Attendance" ...: the table with one more row
InsertAttendance(row) == Attendance \cup {row}

\* validation, office lookup and the distance test of check-in/checkout
AttendSelectOffice(r, kind, b) ==
    /\ Free(r)
    /\ IF CheckFieldsMissing(b.userId, b.userLatitude, b.userLongitude)
       THEN Respond(r, kind, CheckMissingFields, [body |-> b, h |-> CheckH])
       ELSE IF SelectOffice = {}
       THEN Respond(r, kind, CheckOfficeNotFound,
                    [body |-> b, h |-> [CheckH EXCEPT !.valid = TRUE]])
       ELSE LET office == CHOOSE l \in SelectOffice : TRUE
                distance == getDistanceInMeters(b.userLatitude[1],
                                                b.userLongitude[1],
                                                office.latitude,
                                                office.longitude)
                h == [CheckH EXCEPT !.valid = TRUE, !.office = TRUE,
                                    !.distance = distance,
                                    !.radius = office.radius]
            IN  IF OutsideArea(distance, office.radius)
                THEN Respond(r, kind, CheckOutside(kind),
                             [body |-> b, h |-> h])
                ELSE /\ MayAttend
                     /\ req' = [req EXCEPT ![r] =
                                  [kind |-> kind, pc |-> "insert_attendance",
                                   loc |-> b, h |-> h]]
                     /\ UNCHANGED last
    /\ UNCHANGED <<now, User, env, authVars, geoVars>>

\* INSERT INTO "Attendance" ... RETURNING, then the answer
AttendInsert(r, kind) ==
    /\ req[r].kind = kind
    /\ req[r].pc = "insert_attendance"
    /\ LET b == req[r].loc
           row == NewAttendanceRow(kind, b)
           userExists == UsersById(b.userId[1]) # {}
           h == [req[r].h EXCEPT !.userExists = userExists]
       IN  /\ attSeq' = attSeq + 1
           /\ IF userExists /\ SelectOffice # {}
              THEN /\ Attendance' = InsertAttendance(row)
                   /\ Respond(r, kind, CheckSuccess(kind, row),
                              [body |-> b, h |-> h])
              ELSE /\ UNCHANGED Attendance
                   /\ Respond(r, kind, CheckFailed(kind),
                              [body |-> b, h |-> h])
    /\ UNCHANGED <<now, User, env, authVars, Locations>>

CheckinSelectOffice(r, b) == AttendSelectOffice(r, "check-in", b)

\* fault: a check-in that refuses a user who already has a record
CheckinInsertOnce(r) ==
    /\ req[r].kind = "check-in"
    /\ req[r].pc = "insert_attendance"
    /\ LET b == req[r].loc
           row == NewAttendanceRow("check-in", b)
           userExists == UsersById(b.userId[1]) # {}
           h == [req[r].h EXCEPT !.userExists = userExists]
           fresh == \A a \in Attendance : a.user_id # row.user_id
       IN  /\ attSeq' = attSeq + 1
           /\ IF userExists /\ SelectOffice # {} /\ fresh
              THEN /\ Attendance' = InsertAttendance(row)
                   /\ Respond(r, "check-in", CheckSuccess("check-in", row),
                              [body |-> b, h |-> h])
              ELSE /\ UNCHANGED Attendance
                   /\ Respond(r, "check-in", CheckFailed("check-in"),
                              [body |-> b, h |-> h])
    /\ UNCHANGED <<now, User, env, authVars, Locations>>

CheckinInsert(r) == AttendInsert(r, "check-in")

\* fault: a checkout that never measures the distance
CheckoutUnfenced(r, b) ==
    /\ Free(r)
    /\ IF CheckFieldsMissing(b.userId, b.userLatitude, b.userLongitude)
       THEN Respond(r, "checkout", CheckMissingFields,
                    [body |-> b, h |-> CheckH])
       ELSE IF SelectOffice = {}
       THEN Respond(r, "checkout", CheckOfficeNotFound,
                    [body |-> b, h |-> [CheckH EXCEPT !.valid = TRUE]])
       ELSE /\ MayAttend
            /\ req' = [req EXCEPT ![r] =
                         [kind |-> "checkout", pc |-> "insert_attendance",
                          loc |-> b,
                          h |-> [CheckH EXCEPT !.valid = TRUE,
                                               !.office = TRUE]]]
            /\ UNCHANGED last
    /\ UNCHANGED <<now, User, env, authVars, geoVars>>

CheckoutSelectOffice(r, b) == AttendSelectOffice(r, "checkout", b)

CheckoutInsert(r) == AttendInsert(r, "checkout")

\* !locationName || latitude === undefined || ...
SetOfficeFieldsMissing(b) ==
    \/ FalsyStr(b.locationName)
    \/ b.latitude = Undefined
    \/ b.longitude = Undefined
    \/ b.radius = Undefined

\* validation and SELECT location_id FROM "Locations" WHERE location_id = 1
SetOfficeSelect(r, b) ==
    /\ Free(r)
    /\ IF SetOfficeFieldsMissing(b)
       THEN Respond(r, "set-office", SetOfficeMissingFields, [body |-> b])
       ELSE /\ req' = [req EXCEPT ![r] =
                         [kind |-> "set-office",
                          pc |-> IF SelectOffice = {} THEN "insert_location"
                                                      ELSE "update_location",
                          loc |-> b, h |-> <<>>]]
            /\ UNCHANGED last
    /\ UNCHANGED <<now, User, env, authVars, geoVars>>

\* INSERT INTO "Locations" (location_id, ...) VALUES (1, ...)
SetOfficeInsert(r) ==
    /\ req[r].pc = "insert_location"
    /\ LET b == req[r].loc
       IN  IF SelectOffice # {}
           THEN /\ UNCHANGED Locations
                /\ Respond(r, "set-office", SetOfficeFailed, [body |-> b])
           ELSE /\ Locations' = Locations \cup
                      {[location_id |-> OfficeLocationId,
                        location_name |-> b.locationName[1],
                        latitude |-> b.latitude[1],
                        longitude |-> b.longitude[1],
                        radius |-> b.radius[1],
                        created_at |-> now]}
                /\ Respond(r, "set-office", SetOfficeSuccess(b), [body |-> b])
    /\ UNCHANGED <<now, User, env, authVars, Attendance, attSeq>>

\* fault: an UPDATE that leaves the radius as it was
SetOfficeUpdateKeepsRadius(r) ==
    /\ req[r].pc = "update_location"
    /\ LET b == req[r].loc
       IN  /\ Locations' =
                {IF l.location_id = OfficeLocationId
                 THEN [l EXCEPT !.location_name = b.locationName[1],
                                !.latitude = b.latitude[1],
                                !.longitude = b.longitude[1]]
                 ELSE l : l \in Locations}
           /\ Respond(r, "set-office", SetOfficeSuccess(b), [body |-> b])
    /\ UNCHANGED <<now, User, env, authVars, Attendance, attSeq>>

\* UPDATE "Locations" SET ... WHERE location_id = 1
SetOfficeUpdate(r) ==
    /\ req[r].pc = "update_location"
    /\ LET b == req[r].loc
       IN  /\ Locations' =
                {IF l.location_id = OfficeLocationId
                 THEN [l EXCEPT !.location_name = b.locationName[1],
                                !.latitude = b.latitude[1],
                                !.longitude = b.longitude[1],
                                !.radius = b.radius[1]]
                 ELSE l : l \in Locations}
           /\ Respond(r, "set-office", SetOfficeSuccess(b), [body |-> b])
    /\ UNCHANGED <<now, User, env, authVars, Attendance, attSeq>>

(* ----------------------- DELETE /admin/delete-user --------------------- *)
DeleteUserMissingId == ErrorRes(400, "userId is required")

DeleteUserNotFound == ErrorRes(404, "User not found")

DeleteUserFailed == ErrorRes(500, "Failed to delete user")

DeleteUserSuccess(userId) ==
    [status |-> 200, success |-> TRUE, deletedUserId |-> userId]

\* the attendance rows of one user
AttendanceOf(userId) == {a \in Attendance : a.user_id = userId}

\* fault: the attendance rows of a deleted user stay
AttendanceKept(userId) == Attendance

\* Attendance_user_id_fkey ... ON DELETE CASCADE: the rows left once the
\* user is deleted
AttendanceWithout(userId) == {a \in Attendance : a.user_id # userId}

\* user_2fa_codes_user_id_fkey has no ON DELETE action: a user with code
\* rows cannot be deleted
CodesHoldUser(userId) == CodesOf(userId) # {}

\* the whole handler: its one statement is DELETE FROM "User" ... RETURNING *
DeleteUser(r, userId) ==
    /\ Free(r)
    /\ IF FalsyNum(userId)
       THEN /\ Respond(r, "delete-user", DeleteUserMissingId,
                       [body |-> userId])
            /\ UNCHANGED <<User, Attendance>>
       ELSE IF UsersById(userId[1]) = {}
       THEN /\ Respond(r, "delete-user", DeleteUserNotFound,
                       [body |-> userId])
            /\ UNCHANGED <<User, Attendance>>
       ELSE IF CodesHoldUser(userId[1])
       THEN /\ Respond(r, "delete-user", DeleteUserFailed,
                       [body |-> userId])
            /\ UNCHANGED <<User, Attendance>>
       ELSE /\ User' = User \ UsersById(userId[1])
            /\ Attendance' = AttendanceWithout(userId[1])
            /\ Respond(r, "delete-user", DeleteUserSuccess(userId[1]),
                       [body |-> userId, held |-> AttendanceOf(userId[1])])
    /\ UNCHANGED <<now, env, authVars, Locations, attSeq>>

(* ------------------------ the attendance system ------------------------ *)
CheckBody(u, la, lo, n) ==
    [userId |-> u, userLatitude |-> la, userLongitude |-> lo, notes |-> n]

\* bodies lacking a field, then bodies at distance 0, 50 and 51 of the office
CheckBodies ==
    { CheckBody(Undefined, Some(0), Some(0), Undefined),
      CheckBody(Some(1), Undefined, Some(0), Undefined),
      CheckBody(Some(1), Some(0), Undefined, Some("late")),
      CheckBody(Some(1), Some(0), Some(0), Some("late")),
      CheckBody(Some(1), Some(30), Some(40), Undefined),
      CheckBody(Some(1), Some(30), Some(40), Some("")),
      CheckBody(Some(1), Some(51), Some(0), Some("late")),
      CheckBody(Some(3), Some(0), Some(0), Undefined) }

SetOfficeBody(nm, la, lo, ra) ==
    [locationName |-> nm, latitude |-> la, longitude |-> lo, radius |-> ra]

SetOfficeBodies ==
    { SetOfficeBody(Undefined, Some(0), Some(0), Some(30)),
      SetOfficeBody(Some("Telkom University Bandung"), Some(0), Some(0),
                    Undefined),
      SetOfficeBody(Some("Telkom University Bandung"), Some(0), Some(0),
                    Some(30)) }

InitGeo ==
    /\ now = 0
    /\ User = SeedUsers
    /\ env = MainEnv
    /\ user_2fa_codes = SeedCodes
    /\ codeSeq = 0
    /\ outbox = {}
    /\ req = [r \in Slots |-> Idle]
    /\ last = NoLast
    /\ verifiedOn = EmptyBag
    /\ consumed = {}
    /\ Locations \in {{}, {SeedOffice}}
    /\ Attendance = {}
    /\ attSeq = 0

NextGeo ==
    \/ Tick
    \/ \E r \in Slots :
         \/ \E b \in CheckBodies : CheckinSelectOffice(r, b)
         \/ CheckinInsert(r)
         \/ \E b \in CheckBodies : CheckoutSelectOffice(r, b)
         \/ CheckoutInsert(r)
         \/ \E b \in SetOfficeBodies : SetOfficeSelect(r, b)
         \/ SetOfficeInsert(r)
         \/ SetOfficeUpdate(r)

SpecGeo == InitGeo /\ [][NextGeo]_vars

(* --------------- /admin/add-user, /admin/edit-user --------------------- *)
\* the columns name, role and nim_nip of "User" are read by no handler of
\* the model and are not carried in its rows
AddUserMissingFields ==
    ErrorRes(400, "userId, name, usernameEmail, and password are required")

AddUserFailed == ErrorRes(500, "Failed to add user")

AddUserSuccess(b) ==
    [status |-> 201, success |-> TRUE, userId |-> b.userId[1],
     usernameEmail |-> b.usernameEmail[1]]

EditUserMissingId == ErrorRes(400, "userId is required")

EditUserNotFound == ErrorRes(404, "User not found")

EditUserNoFields == ErrorRes(400, "No fields to update")

EditUserFailed == ErrorRes(500, "Failed to edit user")

EditUserSuccess(userId) == [status |-> 200, success |-> TRUE, userId |-> userId]

ForgetMissingFields ==
    ErrorRes(400, "userId, email and newPassword are required")

ForgetNotFound == ErrorRes(404, "User not found")

ForgetSuccess(userId, email) ==
    [status |-> 200, message |-> "Password updated successfully",
     userId |-> userId, email |-> email]

\* fault: a table without User_username_email_key
EmailNeverTaken(email, userId) == FALSE

\* User_username_email_key: a row other than the one of userId holds email
EmailTaken(email, userId) ==
    \E u \in User : u.username_email = email /\ u.user_id # userId

\* User_pkey
UserIdTaken(userId) == UsersById(userId) # {}

AddUserFieldsMissing(b) ==
    \/ FalsyNum(b.userId) \/ FalsyStr(b.name)
    \/ FalsyStr(b.usernameEmail) \/ FalsyStr(b.password)

\* the whole handler: its one statement is INSERT INTO "User"
AddUser(r, b) ==
    /\ Free(r)
    /\ IF AddUserFieldsMissing(b)
       THEN /\ Respond(r, "add-user", AddUserMissingFields,
                       [body |-> b, dup |-> FALSE])
            /\ UNCHANGED User
       ELSE LET dup == \E u \in User :
                          u.username_email = b.usernameEmail[1]
            IN IF UserIdTaken(b.userId[1])
                  \/ EmailTaken(b.usernameEmail[1], b.userId[1])
               THEN /\ Respond(r, "add-user", AddUserFailed,
                               [body |-> b, dup |-> dup])
                    /\ UNCHANGED User
               ELSE /\ User' = User \cup
                          {[user_id |-> b.userId[1],
                            username_email |-> b.usernameEmail[1],
                            password_hash |-> b.password[1]]}
                    /\ Respond(r, "add-user", AddUserSuccess(b),
                               [body |-> b, dup |-> dup])
    /\ UNCHANGED <<now, env, authVars, geoVars>>

\* the request arrives and runs up to the answer of its SELECT on "User"
\* and the building of the field list
EditUserSelect(r, b) ==
    /\ Free(r)
    /\ IF FalsyNum(b.userId)
       THEN Respond(r, "edit-user", EditUserMissingId,
                    [body |-> b, dup |-> FALSE])
       ELSE IF UsersById(b.userId[1]) = {}
       THEN Respond(r, "edit-user", EditUserNotFound,
                    [body |-> b, dup |-> FALSE])
       ELSE IF FalsyStr(b.name) /\ FalsyStr(b.usernameEmail)
               /\ FalsyStr(b.password)
       THEN Respond(r, "edit-user", EditUserNoFields,
                    [body |-> b, dup |-> FALSE])
       ELSE /\ req' = [req EXCEPT ![r] =
                         [kind |-> "edit-user", pc |-> "update_user",
                          loc |-> b, h |-> <<>>]]
            /\ UNCHANGED last
    /\ UNCHANGED <<now, User, env, authVars, geoVars>>

\* UPDATE "User" SET ... WHERE user_id = $n, on the fields the body gave
EditUserUpdate(r) ==
    /\ req[r].kind = "edit-user" /\ req[r].pc = "update_user"
    /\ LET b == req[r].loc
           uid == b.userId[1]
           setsEmail == ~FalsyStr(b.usernameEmail)
           dup == /\ setsEmail
                  /\ UsersById(uid) # {}
                  /\ \E u \in User : /\ u.user_id # uid
                                      /\ u.username_email = b.usernameEmail[1]
       IN IF setsEmail /\ UsersById(uid) # {}
             /\ EmailTaken(b.usernameEmail[1], uid)
          THEN /\ Respond(r, "edit-user", EditUserFailed,
                          [body |-> b, dup |-> dup])
               /\ UNCHANGED User
          ELSE /\ User' =
                    {IF u.user_id = uid
                     THEN [u EXCEPT
                             !.username_email =
                                IF setsEmail THEN b.usernameEmail[1] ELSE @,
                             !.password_hash =
                                IF FalsyStr(b.password) THEN @
                                ELSE b.password[1]]
                     ELSE u : u \in User}
               /\ Respond(r, "edit-user", EditUserSuccess(uid),
                          [body |-> b, dup |-> dup])
    /\ UNCHANGED <<now, env, authVars, geoVars>>

(* ---------------------- POST /user/forget-password --------------------- *)
\* the request arrives and runs up to the answer of its SELECT on "User"
ForgetSelectUser(r, b) ==
    /\ Free(r)
    /\ IF FalsyNum(b.userId) \/ FalsyStr(b.email) \/ FalsyStr(b.newPassword)
       THEN Respond(r, "forget-password", ForgetMissingFields, [body |-> b])
       ELSE IF {u \in User : /\ u.user_id = b.userId[1]
                             /\ u.username_email = b.email[1]} = {}
       THEN Respond(r, "forget-password", ForgetNotFound, [body |-> b])
       ELSE /\ req' = [req EXCEPT ![r] =
                         [kind |-> "forget-password", pc |-> "update_password",
                          loc |-> b, h |-> <<>>]]
            /\ UNCHANGED last
    /\ UNCHANGED <<now, User, env, authVars, geoVars>>

\* UPDATE "User" SET password_hash = $1 WHERE user_id = $2
ForgetUpdate(r) ==
    /\ req[r].kind = "forget-password" /\ req[r].pc = "update_password"
    /\ LET b == req[r].loc
       IN  /\ User' = {IF u.user_id = b.userId[1]
                       THEN [u EXCEPT !.password_hash = b.newPassword[1]]
                       ELSE u : u \in User}
           /\ Respond(r, "forget-password",
                      ForgetSuccess(b.userId[1], b.email[1]), [body |-> b])
    /\ UNCHANGED <<now, env, authVars, geoVars>>

(* ----------------------- the administration of users ------------------- *)
UserBody(u, n, e, p) ==
    [userId |-> u, name |-> n, usernameEmail |-> e, password |-> p]

\* a body without its id, then rows with a new email, with the email of
\* alice and with the id of alice
AddUserBodies ==
    { UserBody(Undefined, Some("Carol Lee"), Some("carol@example.com"),
               Some("hashed_password_2")),
      UserBody(Some(3), Some("Carol Lee"), Some("carol@example.com"),
               Some("hashed_password_2")),
      UserBody(Some(3), Some("Carol Lee"), Some("alice@example.com"),
               Some("hashed_password_2")),
      UserBody(Some(1), Some("Alice Johnson"), Some("carol@example.com"),
               Some("hashed_password_1")) }

\* edits of nothing, of the name, of the password, of the email to a free
\* one, to the one of bob and to the one the row has already
EditUserBodies ==
    { UserBody(Some(1), Undefined, Undefined, Undefined),
      UserBody(Some(3), Some("Carol"), Undefined, Undefined),
      UserBody(Some(1), Undefined, Undefined, Some("hashed_password_2")),
      UserBody(Some(1), Undefined, Some("carol@example.com"), Undefined),
      UserBody(Some(1), Undefined, Some("bob@example.com"), Undefined),
      UserBody(Some(2), Undefined, Some("bob@example.com"), Undefined),
      UserBody(Some(2), Undefined, Some("alice@example.com"), Undefined) }

ForgetBody(u, e, p) == [userId |-> u, email |-> e, newPassword |-> p]

ForgetBodies ==
    { ForgetBody(Some(1), Some("alice@example.com"), Undefined),
      ForgetBody(Some(1), Some("alice@example.com"),
                 Some("hashed_password_2")),
      ForgetBody(Some(2), Some("alice@example.com"),
                 Some("hashed_password_1")) }

NextUsers ==
    \E r \in Slots :
       \/ \E b \in AddUserBodies : AddUser(r, b)
       \/ \E b \in EditUserBodies : EditUserSelect(r, b)
       \/ EditUserUpdate(r)
       \/ \E userId \in OptUserIds : DeleteUser(r, userId)
       \/ \E b \in ForgetBodies : ForgetSelectUser(r, b)
       \/ ForgetUpdate(r)

SpecUsers == InitAuth /\ [][NextUsers]_vars

(* ------------------- statements the database rejects ------------------ *)
\* the handlers whose statements all stand in one try block
GuardedKinds == {"login", "resend", "verify", "check-in", "checkout"}

\* the pool.query statements a request can be waiting at
QuerySteps ==
    {"delete_codes", "insert_code", "delete_code", "select_email",
     "insert_attendance"}

\* err.message of a statement the database did not run
QueryError == "Connection terminated unexpectedly"

\* fault: the catch clause answers as if nothing had happened
CatchAnswersOk(kind) == [status |-> 200, message |-> "OK"]

\* the answer of the catch clause of each handler
CatchOf(kind) ==
    CASE kind = "login" -> LoginCatch(QueryError)
      [] kind = "resend" -> ResendFailed
      [] kind = "verify" -> VerifyFailed
      [] OTHER -> CheckFailed(kind)

\* await pool.query(...) rejects: the first statement of a request that
\* carries its fields, or the statement a request is waiting at; control
\* goes to the catch clause of the handler and no row changes
QueryRejects(r, kind) ==
    /\ \/ Free(r)
       \/ req[r].kind = kind /\ req[r].pc \in QuerySteps
    /\ Respond(r, kind, CatchOf(kind),
               [rejected |-> IF req[r].kind = "idle" THEN "select"
                                                    ELSE req[r].pc])
    /\ UNCHANGED <<now, User, env, authVars, geoVars>>

InitFail ==
    /\ now = 0
    /\ User = SeedUsers
    /\ env = MainEnv
    /\ user_2fa_codes = SeedCodes
    /\ codeSeq = 0
    /\ outbox = {}
    /\ req = [r \in Slots |-> Idle]
    /\ last = NoLast
    /\ verifiedOn = EmptyBag
    /\ consumed = {}
    /\ Locations = {SeedOffice}
    /\ Attendance = {}
    /\ attSeq = 0

\* requests of user 1 that pass every check, one at a time in slot 1; the
\* deletion of user 1, which the other slot can run while a request waits;
\* and the rejection of the statement a request is at
NextFail ==
    \/ LoginSelectUser(1, Some("alice@example.com"), Some("hashed_password_1"))
    \/ LoginDeleteCodes(1)
    \/ LoginInsertCode(1)
    \/ LoginSendMail(1)
    \/ ResendSelectUser(1, Some(1))
    \/ ResendDeleteCodes(1)
    \/ ResendInsertCode(1)
    \/ ResendSendMail(1)
    \/ \E code \in Codes : VerifySelectCode(1, Some(1), Some(code))
    \/ VerifyDeleteCode(1)
    \/ VerifySelectEmail(1)
    \/ CheckinSelectOffice(1, CheckBody(Some(1), Some(0), Some(0), Undefined))
    \/ CheckinInsert(1)
    \/ CheckoutSelectOffice(1, CheckBody(Some(1), Some(30), Some(40),
                                         Undefined))
    \/ CheckoutInsert(1)
    \/ \E r \in Slots : DeleteUser(r, Some(1))
    \/ \E kind \in GuardedKinds : QueryRejects(1, kind)

SpecFail == InitFail /\ [][NextFail]_vars

(* ------------- the five handlers with any request body ---------------- *)
\* one request at a time, with or without its fields
NextBodies ==
    \/ \E email \in OptEmails, password \in OptPasswords :
         LoginSelectUser(1, email, password)
    \/ LoginDeleteCodes(1)
    \/ LoginInsertCode(1)
    \/ LoginSendMail(1)
    \/ \E userId \in OptResendUserIds : ResendSelectUser(1, userId)
    \/ ResendDeleteCodes(1)
    \/ ResendInsertCode(1)
    \/ ResendSendMail(1)
    \/ \E userId \in OptUserIds, code \in OptCodes :
         VerifySelectCode(1, userId, code)
    \/ VerifyDeleteCode(1)
    \/ VerifySelectEmail(1)
    \/ \E b \in CheckBodies : CheckinSelectOffice(1, b)
    \/ CheckinInsert(1)
    \/ \E b \in CheckBodies : CheckoutSelectOffice(1, b)
    \/ CheckoutInsert(1)

SpecBodies == InitFail /\ [][NextBodies]_vars

(* ------------- the attendance system with its administration ---------- *)
NextAdmin ==
    \/ NextGeo
    \/ \E r \in Slots, userId \in OptUserIds : DeleteUser(r, userId)

SpecAdmin == InitGeo /\ [][NextAdmin]_vars

(* ======================= properties: 2FA codes ========================= *)

\* C1: of the verify-2fa requests that matched one stored, unexpired code
\* row, at most one answers with success, whatever the interleaving of their
\* SELECT and DELETE steps.
C1_AtMostOneSuccessPerCode ==
    \A id \in BagToSet(verifiedOn) : CopiesIn(id, verifiedOn) <= 1

\* C2: once every issuance request (login, resend-2fa) has answered, at most
\* one unexpired code row is stored for each user.
C2_AtMostOneActiveCode ==
    (\A s \in Slots : ~IssuanceInProgress(req[s]))
        => \A u \in BodyUserIds : Cardinality(ActiveCodesOf(u)) <= 1

\* C3: a verify-2fa request gets past its lookup, and answers with success,
\* only if at the time of the lookup a row of that user with the submitted
\* code had expires_at strictly after NOW(); with only expired rows (or none)
\* it answers "Invalid or expired code".
C3_ExpiredNeverVerifies ==
    /\ \A s \in Slots : req[s].kind = "verify" => req[s].h.fresh
    /\ last.kind = "verify" /\ last.res.status = 200 => last.h.fresh
    /\ last.kind = "verify" /\ last.res # VerifyMissingFields /\ ~last.h.fresh
          => last.res = VerifyInvalidOrExpired

\* a verification refused although the submitted code equals a stored one:
\* the row had expired
C3_Witness ==
    /\ last.kind = "verify" /\ last.res = VerifyInvalidOrExpired
    /\ last.h.expired /\ ~last.h.fresh

\* C4 as stated: a verify-2fa request that arrives after a successful
\* verification of the same (user, code) has answered, with no code row
\* inserted for that user and no issuance for that user in progress since
\* that answer, is refused with "Invalid or expired code".
C4_ReplayFailsSinceAnswer ==
    last.kind = "verify" /\ last.h.followsDone
        => last.res = VerifyInvalidOrExpired

\* C4, amended: a verify-2fa request that arrives after a successful
\* verification of the same (user, code) has answered, with no code row
\* inserted for that user since that verification's DELETE, is refused with
\* "Invalid or expired code" and never gets past its lookup.
C4_ReplayFailsSinceDelete ==
    /\ last.kind = "verify" /\ last.h.followsDelete
          => last.res = VerifyInvalidOrExpired
    /\ \A s \in Slots : req[s].kind = "verify" => ~req[s].h.followsDelete

C4_Witness ==
    /\ last.kind = "verify" /\ last.h.followsDelete
    /\ last.res = VerifyInvalidOrExpired

\* C5: when an issuance request has inserted its code row and no other
\* request inserted a row for that user between its DELETE and its INSERT,
\* no other row of that user verifies a code different from the new one.
C5_NewCodeInvalidatesOld ==
    /\ \A s \in Slots :
          IsIssuance(req[s]) /\ req[s].pc = "send_mail" /\ ~req[s].h.raced
              => ~req[s].h.stale
    /\ last.kind \in {"login", "resend"} /\ last.h.sent # "none"
          /\ ~last.h.raced => ~last.h.stale

\* a second code has just been stored for a user who was mailed another one
C5_Witness ==
    \E s \in Slots :
        /\ IsIssuance(req[s]) /\ req[s].pc = "send_mail" /\ ~req[s].h.raced
        /\ \E m \in outbox : m[1] = req[s].loc.to /\ m[2] # req[s].loc.code

\* C9: a login whose email matches no user is answered "User not found", one
\* whose email matches a user with another password "Invalid password"; the
\* step that answers so changes neither user_2fa_codes nor the outbox.
C9_FailedLoginChangesNothing ==
    [][ (last' # last /\ last'.kind = "login"
           /\ last'.res # LoginMissingFields
           /\ ~(last'.h.known /\ last'.h.pwOk))
        => /\ last'.res = IF last'.h.known THEN LoginInvalidPassword
                          ELSE LoginNotFound
           /\ LoginNotFound # LoginInvalidPassword
           /\ UNCHANGED <<user_2fa_codes, codeSeq, outbox>> ]_vars

C9_Witness ==
    /\ last.kind = "login" /\ last.res = LoginInvalidPassword
    /\ last.h.known /\ ~last.h.pwOk

\* C10: a login whose mail was not delivered is answered "Login failed"
\* (500), never with the success body, and not with one of the two
\* credential answers.
C10_DeliveryFailureIsAnError ==
    last.kind = "login" /\ last.h.sent = "failed"
        => /\ last.res = LoginFailed
           /\ last.res.status # 200
           /\ last.res \notin {LoginNotFound, LoginInvalidPassword}

C10_Witness == last.kind = "login" /\ last.h.sent = "failed"

(* ======================== properties: geofence ========================= *)
\* a step in which a check-in or checkout request answers
CheckAnswers == last' # last /\ last'.kind \in CheckKinds

\* C6: a check-in or checkout request whose computed distance to the office
\* is greater than the radius it read answers "outside the allowed area" and
\* leaves the attendance table unchanged; every step that changes the
\* attendance table belongs to a request whose distance was at most the
\* radius it read.
C6_OutsideWritesNothing ==
    [][ /\ (CheckAnswers /\ last'.h.h.office
              /\ last'.h.h.distance > last'.h.h.radius)
           => /\ last'.res = CheckOutside(last'.kind)
              /\ UNCHANGED Attendance
        /\ (Attendance' # Attendance)
           => /\ last'.kind \in CheckKinds
              /\ last'.h.h.office
              /\ last'.h.h.distance <= last'.h.h.radius ]_vars

\* a request 51 m from the office was turned away with radius 50, and a
\* record was written by a request exactly on the boundary
C6_Witness ==
    /\ last.kind \in CheckKinds
    /\ last.h.h.office
    /\ last.h.h.distance > last.h.h.radius
    /\ last.h.h.radius = SeedRadius
    /\ last.res.status = 403
    /\ \E a \in Attendance : a.user_latitude = 30 /\ a.user_longitude = 40

\* the attendance row a successful answer stands for, with the note column
\* as given
AnsweredRow(notes) ==
    [attendance_id |-> last'.res.attendanceId,
     user_id |-> last'.h.body.userId[1],
     location_id |-> OfficeLocationId,
     type |-> last'.kind,
     timestamp |-> last'.res.timestamp,
     user_latitude |-> last'.h.body.userLatitude[1],
     user_longitude |-> last'.h.body.userLongitude[1],
     status |-> Null,
     notes |-> notes]

\* a check-in or checkout with all fields, a configured office, distance at
\* most the radius and a user that exists when the row is inserted
CheckAccepted ==
    /\ CheckAnswers
    /\ last'.h.h.valid
    /\ last'.h.h.office
    /\ last'.h.h.distance <= last'.h.h.radius
    /\ last'.h.h.userExists

InsertsExactly(row) ==
    /\ last'.res.status = 200
    /\ row \notin Attendance
    /\ Attendance' = Attendance \cup {row}

\* C7 as stated: an accepted check-in or checkout (distance 0 and distance
\* equal to the radius included) answers 200 with the id and timestamp of
\* the one row it inserts, which carries the user, location 1, the type tag,
\* the reported coordinates and the note of the body, NULL when the body has
\* no note.
C7_AcceptedInsertsBodyNote ==
    [][ CheckAccepted => InsertsExactly(AnsweredRow(last'.h.body.notes)) ]_vars

\* C7 as the code has it: the same, with the note column NULL when the body
\* has no note or an empty one.
C7_AcceptedInsertsOneRecord ==
    [][ CheckAccepted =>
          InsertsExactly(AnsweredRow(IF FalsyStr(last'.h.body.notes)
                                     THEN Null
                                     ELSE last'.h.body.notes)) ]_vars

\* accepted requests at distance 0 and on the boundary have both written
\* their row, one with a note and one, whose body had an empty note, with
\* NULL
C7_Witness ==
    /\ last.kind \in CheckKinds
    /\ last.res.status = 200
    /\ last.h.h.distance = last.h.h.radius
    /\ last.h.body.notes = Some("")
    /\ \E a \in Attendance :
         /\ a.attendance_id = last.res.attendanceId
         /\ a.notes = Null
    /\ \E a \in Attendance :
         /\ a.user_latitude = 0 /\ a.user_longitude = 0
         /\ a.notes = Some("late")

\* C8: with no row 1 in "Locations", a check-in or checkout that carries its
\* required fields answers "Office location not found", an answer different
\* from the missing-fields answer and from both outside-area answers, and
\* writes no attendance row.
C8_OfficeNotConfigured ==
    [][ (CheckAnswers /\ last'.h.h.valid /\ SelectOffice = {})
          => /\ last'.res = CheckOfficeNotFound
             /\ last'.res # CheckMissingFields
             /\ \A k \in CheckKinds : last'.res # CheckOutside(k)
             /\ ~last'.h.h.office
             /\ UNCHANGED <<Attendance, attSeq>> ]_vars

\* a complete check-in or checkout was answered while no office row existed
C8_Witness ==
    /\ last.kind \in CheckKinds
    /\ last.h.h.valid
    /\ ~last.h.h.office
    /\ last.res = CheckOfficeNotFound
    /\ Locations = {}

(* ================ properties: configuration and resend ================= *)
\* the answers a login gives when the transport of a configured sender
\* rejects the mail, under the router that is mounted
DeliveryFailureAnswers ==
    IF env.router = MainRouter
    THEN {LoginAfterSend([user_id |-> u.user_id,
                          username_email |-> u.username_email], FALSE) :
            u \in User}
    ELSE {DebugLoginFailed(m) : m \in TransportErrors}

\* C11: a login that reaches its send step while EMAIL_USER or EMAIL_PASS
\* is unset is answered with an error that is none of the two credential
\* answers and none of the answers given when a configured sender fails to
\* deliver.
C11_MissingConfigIsDistinct ==
    last.kind = "login" /\ last.h.sent = "unconfigured"
        => /\ last.res.status # 200
           /\ last.res \notin {LoginNotFound, LoginInvalidPassword}
           /\ last.res \notin DeliveryFailureAnswers

\* C12: a verify-2fa request whose lookup runs while a row of that user with
\* the submitted code is stored (inserted by login or resend, deleted by no
\* verification and no later issuance) and less than 5 minutes have passed
\* since its INSERT answers 200 "2FA verified".
C12_LiveCodeVerifies ==
    last.kind = "verify" /\ last.h.live
        => /\ last.res.status = 200
           /\ last.res.message = "2FA verified"

\* a code verified in the last minute of its life
C12_Witness ==
    /\ last.kind = "verify" /\ last.h.live /\ last.h.late
    /\ last.res.status = 200

(* =================== properties: failed verification =================== *)
FailedCases == {"wrong", "expired", "none"}

\* C13: a verify-2fa request with both fields whose lookup finds a wrong
\* code, only an expired row with the right code, or no row of the user at
\* all gets one and the same answer, 401 "Invalid or expired code"; two
\* failed answers in a row are equal whatever their cases.
C13_FailureIsUniform ==
    [][ /\ (last'.kind = "verify" /\ last'.h.case \in FailedCases)
            => last'.res = VerifyInvalidOrExpired
        /\ (last.kind = "verify" /\ last.h.case \in FailedCases
             /\ last'.kind = "verify" /\ last'.h.case \in FailedCases)
            => last'.res = last.res ]_vars

\* a wrong code has just been refused while an expired row is stored
C13_Witness ==
    /\ last.kind = "verify" /\ last.h.case = "wrong"
    /\ last.res = VerifyInvalidOrExpired
    /\ \E c \in user_2fa_codes : c.expires_at <= now

(* ========================= properties: resend ========================== *)
IssuanceSteps == <<"generate", "delete", "persist", "deliver">>

\* a resend-2fa for an existing user has answered after the four steps in
\* their order, and a success stands for a row stored with expiry now + 5
ResendRanInOrder ==
    last.kind = "resend" /\ last.h.known /\ last.res # ResendMissingFields
        => /\ last.h.steps = IssuanceSteps
           /\ last.res.status = 200 => last.h.persisted

\* C14: a resend-2fa request for an existing user, with no password asked,
\* generates a code, deletes the prior codes of the user, inserts the new
\* row with expires_at = NOW() + 5 minutes and sends the mail, in that
\* order; when it answers 200 the new row has been inserted.
C14_ResendIssuesInOrder == ResendRanInOrder

\* the same under routes/user.js alone
ResendOfMainRouterIssuesInOrder == env.router = MainRouter => ResendRanInOrder

(* ====================== properties: code format ======================== *)
Digits == {"0", "1", "2", "3", "4", "5", "6", "7", "8", "9"}

IsSixDigits(code) ==
    /\ Len(code) = 6
    /\ \A i \in 1..Len(code) : SubSeq(code, i, i) \in Digits

\* C15: every row a login or a resend-2fa has inserted holds a code of
\* exactly 6 characters, each a decimal digit.
C15_StoredCodesAreSixDigits ==
    \A c \in user_2fa_codes : c.id > 0 => IsSixDigits(c.code)

(* ================ properties: check-in against checkout ================ *)
\* one request at a time and a clock that stands still (no handler of the
\* three reads it before its INSERT): between two requests a check-in and
\* a checkout can both be started from the same state
NextPair ==
    \/ \E b \in CheckBodies : CheckinSelectOffice(1, b)
    \/ CheckinInsert(1)
    \/ \E b \in CheckBodies : CheckoutSelectOffice(1, b)
    \/ CheckoutInsert(1)
    \/ \E b \in SetOfficeBodies : SetOfficeSelect(1, b)
    \/ SetOfficeInsert(1)
    \/ SetOfficeUpdate(1)

SpecPair == InitGeo /\ [][NextPair]_vars

\* what the first step of a request in slot 1 leads to: the status of its
\* answer, or 0 when it goes on to its INSERT
DecisionIs(st) ==
    (IF req'[1].kind = "idle" THEN last'.res.status ELSE 0) = st

Decisions == {0, 400, 403, 500}

\* from this state and with any body, check-in and checkout decide alike
SameDecision ==
    Free(1) => \A b \in CheckBodies, st \in Decisions :
        ENABLED (CheckinSelectOffice(1, b) /\ DecisionIs(st))
            <=> ENABLED (CheckoutSelectOffice(1, b) /\ DecisionIs(st))

\* the one row an accepted request inserts is the row either handler builds
\* from that state and body, but for the type tag
SameRecord ==
    (last' # last /\ last'.kind \in CheckKinds /\ last'.res.status = 200)
        => /\ Cardinality(Attendance' \ Attendance) = 1
           /\ \A row \in Attendance' \ Attendance :
                /\ row.type = last'.kind
                /\ \A k \in CheckKinds :
                     [row EXCEPT !.type = k] =
                        NewAttendanceRow(k, last'.h.body)

StatusOfChecks(c) ==
    IF ~c.valid THEN 400
    ELSE IF ~c.office THEN 500
    ELSE IF c.distance > c.radius THEN 403
    ELSE IF ~c.userExists THEN 500
    ELSE 200

\* C17: the answer of a check-in or checkout follows from the checks the
\* request made (fields, office, distance against radius, the user row) and
\* from nothing else: a request that passes them is accepted whatever rows
\* the attendance table already holds for its user.
C17_AcceptedWhateverIsStored ==
    [][ CheckAnswers => last'.res.status = StatusOfChecks(last'.h.h) ]_vars

\* a second checkout of user 1 was accepted while the table held a checkout
\* of that user and no check-in
C17_Witness ==
    /\ last.kind = "checkout" /\ last.res.status = 200
    /\ last.res.attendanceId = 2
    /\ Cardinality({a \in Attendance : a.user_id = 1}) = 2
    /\ \A a \in Attendance : a.type = "checkout"

(* ============= properties: what attendance rows refer to =============== *)
\* every attendance row has its user and its location
RowsReferToRows ==
    \A a \in Attendance :
        /\ UsersById(a.user_id) # {}
        /\ \E l \in Locations : l.location_id = a.location_id

\* a step in which a delete-user request answers with success
UserDeleted ==
    last' # last /\ last'.kind = "delete-user" /\ last'.res.status = 200

\* a request whose user was missing at its INSERT writes nothing, and a
\* successful delete-user leaves no row of its user
NoRowWithoutUser ==
    /\ (CheckAnswers /\ last'.h.h.valid /\ ~last'.h.h.userExists)
          => /\ UNCHANGED Attendance
             /\ last'.res.status # 200
    /\ UserDeleted
          => \A a \in Attendance' : a.user_id # last'.res.deletedUserId

\* C18: in every reachable state each attendance record refers to a user
\* and a location that exist; a check-in or checkout whose user id has no
\* row writes no record, and a successful delete-user removes every
\* attendance record of its user.
C18_RecordsReferToExistingRows ==
    [](RowsReferToRows) /\ [][NoRowWithoutUser]_vars

\* user 1 was deleted while holding an attendance record, and none is left
C18_Witness ==
    /\ last.kind = "delete-user" /\ last.res.status = 200
    /\ last.h.held # {}
    /\ UsersById(last.res.deletedUserId) = {}
    /\ \A a \in Attendance : a.user_id # last.res.deletedUserId

(* ============== properties: attendance rows stay as written ============ *)
\* no stored row changes: the row stored under an id is the same row
\* afterwards if that id is still stored
RowsUnmodified ==
    \A a \in Attendance, c \in Attendance' :
        a.attendance_id = c.attendance_id => a = c

\* a stored row goes only in the step of a successful delete-user of its
\* user (no handler deletes a location)
RemovedOnlyByCascade ==
    \A a \in Attendance \ Attendance' :
        UserDeleted /\ last'.res.deletedUserId = a.user_id

\* C19: no operation modifies an attendance record once it is inserted; a
\* record is removed only by the cascading delete of its user (or of its
\* location, which no handler deletes); a step of check-in or checkout
\* leaves every stored record as it is.
C19_RecordsStayAsWritten ==
    [][ /\ RowsUnmodified
        /\ RemovedOnlyByCascade
        /\ CheckAnswers => Attendance \subseteq Attendance' ]_vars

\* a second record of user 1 was accepted and the first is still stored
C19_Witness ==
    /\ last.kind \in CheckKinds /\ last.res.status = 200
    /\ \E a, c \in Attendance :
         /\ a.user_id = c.user_id
         /\ a.attendance_id < c.attendance_id
         /\ c.attendance_id = last.res.attendanceId

(* ================= properties: failures are answered =================== *)
\* the request of slot r answers in this step from the statement pc
AnswersFrom(r, pc) == req[r].pc = pc /\ req'[r] = Idle

\* a statement or the delivery of the answering request failed: the
\* database rejected a statement; an INSERT broke a foreign key because the
\* user row is gone; the email lookup of verify found no row; sendMail
\* rejected
StepFailed ==
    \/ last' # last /\ "rejected" \in DOMAIN last'.h
    \/ \E r \in Slots :
         \/ /\ AnswersFrom(r, "insert_code")
            /\ UsersById(req[r].loc.uid) = {}
         \/ /\ AnswersFrom(r, "select_email")
            /\ UsersById(req[r].loc.uid) = {}
         \/ /\ AnswersFrom(r, "insert_attendance")
            /\ UsersById(req[r].loc.userId[1]) = {}
         \/ /\ AnswersFrom(r, "send_mail")
            /\ outbox' = outbox
            /\ <<req[r].loc.to, req[r].loc.code>> \notin outbox

\* C20: in login, resend-2fa, verify-2fa, check-in and checkout, a request
\* one of whose persistence statements or whose delivery fails answers with
\* an error (status 500 and an error text), never with its success answer.
C20_FailuresAreAnswered ==
    [][ StepFailed => /\ last'.res.status = 500
                      /\ "error" \in DOMAIN last'.res
                      /\ "message" \notin DOMAIN last'.res ]_vars

\* a verify-2fa answered 500 at its email lookup, its code already deleted,
\* because user 1 had been deleted in between
C20_Witness ==
    /\ last.kind = "verify" /\ last.res = VerifyFailed
    /\ "case" \in DOMAIN last.h /\ last.h.case = "match"
    /\ UsersById(1) = {}
    /\ CodesOf(1) = {}

(* ============== properties: what a failed login tells ================== *)
\* a login that ended in its catch clause: a statement or the delivery
\* failed, or the mail configuration was found missing
LoginFaulted == last.kind = "login" /\ last.res.status = 500

\* C22: a login that fails on an infrastructure fault (a statement the
\* database refuses, a mail the transport rejects, a missing mail
\* configuration) is answered with the one fixed failure 500 "Login failed",
\* whatever the fault was.
C22_FaultAnswerIsGeneric == LoginFaulted => last.res = LoginFailed

\* the same under the router of routes/user.js alone
FaultAnswerOfMainRouterIsGeneric ==
    env.router = MainRouter => C22_FaultAnswerIsGeneric

(* ================ properties: one user for each email ================== *)
UniqueEmails ==
    \A u, v \in User : u.username_email = v.username_email => u = v

\* an add-user or edit-user answers whose statement would have given a
\* second row the email of another
DuplicateAnswered ==
    /\ last' # last
    /\ last'.kind \in {"add-user", "edit-user"}
    /\ last'.h.dup

\* C23: whatever add-user, edit-user, delete-user and forget-password
\* requests have run, no two rows of "User" hold the same username_email;
\* an add-user or edit-user that would store an email another row holds
\* fails and leaves the table as it was.
C23_EmailStaysUnique ==
    [](UniqueEmails)
    /\ [][ DuplicateAnswered => /\ last'.res.status = 500
                                /\ UNCHANGED User ]_vars

\* an edit-user that asked for the email of bob for user 1 was refused while
\* a third user, added before, is stored
C23_Witness ==
    /\ last.kind = "edit-user" /\ last.res = EditUserFailed
    /\ last.h.dup
    /\ Cardinality(User) = 3
    /\ UniqueEmails

(* ============== properties: requests that lack a field ================= *)
\* the step answers res, a validation error, and touches no table, no
\* sequence and no mail, and the request is over
RejectedWith(res) ==
    /\ last'.res = res
    /\ res.status = 400
    /\ req' = req
    /\ UNCHANGED <<User, authVars, geoVars>>

\* a check-in or checkout body without one of its three required fields
LacksCheckField(b) ==
    \/ b.userId = Undefined
    \/ b.userLatitude = Undefined
    \/ b.userLongitude = Undefined

\* every first step of a request that lacks a field is a rejection
LackingIsRejected ==
    /\ \A email \in OptEmails, password \in OptPasswords :
         (email = Undefined \/ password = Undefined)
            /\ LoginSelectUser(1, email, password)
         => RejectedWith(LoginMissingFields)
    /\ ResendSelectUser(1, Undefined) => RejectedWith(ResendMissingFields)
    /\ \A userId \in OptUserIds, code \in OptCodes :
         (userId = Undefined \/ code = Undefined)
            /\ VerifySelectCode(1, userId, code)
         => RejectedWith(VerifyMissingFields)
    /\ \A b \in CheckBodies :
         LacksCheckField(b)
            /\ (CheckinSelectOffice(1, b) \/ CheckoutSelectOffice(1, b))
         => RejectedWith(CheckMissingFields)

\* a check-in or checkout is turned away as lacking a field only when its
\* body lacks one: a coordinate of 0 is a coordinate
ZeroIsPresent ==
    (CheckAnswers /\ last'.res.status = 400) => LacksCheckField(last'.h.body)

VerifiedUsers == {v.user_id : v \in consumed}

\* C25: an attendance row of a user is stored only after a verify-2fa of
\* that user has succeeded: every stored row belongs to a user with a
\* successful verification behind them.
C25_AttendanceFollowsVerification ==
    \A a \in Attendance : a.user_id \in VerifiedUsers

(* ============== properties: setting the office location ================ *)
\* the row l holds what the body b supplied
HoldsBody(l, b) ==
    /\ l.location_id = OfficeLocationId
    /\ l.location_name = b.locationName[1]
    /\ l.latitude = b.latitude[1]
    /\ l.longitude = b.longitude[1]
    /\ l.radius = b.radius[1]

\* a set-office-location request answers 200 in slot r while no other such
\* request is under way
SetOfficeSucceedsAlone(r) ==
    /\ req[r].kind = "set-office" /\ req'[r] = Idle
    /\ last'.kind = "set-office" /\ last'.res.status = 200
    /\ \A s \in Slots \ {r} : req[s].kind # "set-office"

\* after it there is one row 1 and it holds the body; if row 1 held the
\* body already, the table is as it was
OfficeIsSet(r) ==
    /\ Cardinality(Locations') = 1
    /\ \A l \in Locations' : HoldsBody(l, req[r].loc)
    /\ (\E l \in Locations : HoldsBody(l, req[r].loc))
          => Locations' = Locations

\* a check-in or checkout that gets past its office lookup in this step has
\* measured against the row stored now
DecidesOnStoredOffice ==
    \A r \in Slots :
       (req[r].kind = "idle" /\ req'[r].pc = "insert_attendance")
          => \E l \in SelectOffice :
                /\ req'[r].h.radius = l.radius
                /\ req'[r].h.distance =
                      getDistanceInMeters(req'[r].loc.userLatitude[1],
                                          req'[r].loc.userLongitude[1],
                                          l.latitude, l.longitude)
                /\ req'[r].h.distance <= l.radius

\* and one that is turned away as outside was outside of that row
RefusesOnStoredOffice ==
    (CheckAnswers /\ last'.res.status = 403)
       => \E l \in SelectOffice :
             /\ last'.h.h.radius = l.radius
             /\ getDistanceInMeters(last'.h.body.userLatitude[1],
                                    last'.h.body.userLongitude[1],
                                    l.latitude, l.longitude) > l.radius

\* C26: a set-office-location that answers 200 with no other one under
\* way leaves exactly one row with location_id 1, holding the name,
\* latitude, longitude and radius of its body, whether it inserted or
\* updated; when the row held these values already the table does not
\* change; check-ins and checkouts decide against the row stored at their
\* lookup.
C26_OfficeIsWhatWasSet ==
    [][ /\ \A r \in Slots : SetOfficeSucceedsAlone(r) => OfficeIsSet(r)
        /\ DecidesOnStoredOffice
        /\ RefusesOnStoredOffice ]_vars

\* the office of the dump (radius 50) was set to radius 30, and a request
\* 50 m away, inside the old fence, was then turned away
C26_Witness ==
    /\ last.kind \in CheckKinds /\ last.res.status = 403
    /\ last.h.h.distance = 50 /\ last.h.h.radius = 30
    /\ \E l \in Locations :
         l.radius = 30 /\ l.location_name = "Telkom University Bandung"

(* ============ properties: where a verified code comes from ============= *)
\* every row that enters user_2fa_codes is put there, at the present time,
\* by the INSERT of a resend-2fa for its user or of a login for its user
\* that passed the password comparison
RowsComeFromIssuance ==
    \A c \in user_2fa_codes' \ user_2fa_codes :
       \E r \in Slots :
          /\ IsIssuance(req[r]) /\ req[r].pc = "insert_code"
          /\ req'[r].pc = "send_mail"
          /\ req[r].loc.uid = c.user_id
          /\ req'[r].loc.code = c.code
          /\ c.issued_at = now
          /\ req[r].kind = "login" => (req[r].h.known /\ req[r].h.pwOk)

\* a verify-2fa that has answered 200 found, at its lookup, a row of its
\* user and code inserted less than 5 minutes before
VerifiedWasIssued ==
    (last.kind = "verify" /\ last.res.status = 200) => last.h.live

\* C27: with no unexpired code stored at the start, every verify-2fa that
\* succeeds for user u and code c comes after the INSERT of a login that
\* passed the credential check for u, or of a resend-2fa for u, which
\* stored c for u less than 5 minutes before the lookup of the
\* verification.
C27_VerifiedCodeWasIssued ==
    [](VerifiedWasIssued) /\ [][RowsComeFromIssuance]_vars

\* a verification succeeded on the second code issued in the run, more
\* than a minute before its end
C27_Witness ==
    /\ last.kind = "verify" /\ last.res.status = 200
    /\ last.h.live /\ ~last.h.late
    /\ codeSeq = 2

(* ============ properties: the codes of the other users ================= *)
AuthKinds == {"login", "resend", "verify"}

\* the code rows of every user but userId
CodesOfOthers(rows, userId) == {c \in rows : c.user_id # userId}

\* the request of slot r runs one of its statements in this step
StatementOf(r) == req[r].kind \in AuthKinds /\ req'[r].pc # req[r].pc

\* a statement of a request for user u leaves the rows of the others, and
\* the table changes in no other step
OthersUntouched ==
    /\ \A r \in Slots :
         StatementOf(r) =>
            CodesOfOthers(user_2fa_codes', req[r].loc.uid) =
               CodesOfOthers(user_2fa_codes, req[r].loc.uid)
    /\ user_2fa_codes' # user_2fa_codes => \E r \in Slots : StatementOf(r)

\* C28: no statement of a login, resend-2fa or verify-2fa for user u
\* deletes, inserts or changes a code row of another user: in every step
\* of these requests the rows of all users other than u are as before.
C28_OtherUsersCodesUntouched == [][OthersUntouched]_vars

\* two codes were issued to user 1, the first deleted by the second
\* issuance, and the row of user 2 is still stored
C28_Witness ==
    /\ codeSeq = 2
    /\ Cardinality(CodesOf(1)) = 1
    /\ SeedCodes \subseteq user_2fa_codes
    /\ last.kind \in {"login", "resend"} /\ last.res.status = 200

(* ============= properties: a verification that fails =================== *)
\* a verify-2fa answers 401 "Invalid or expired code" in this step
VerifyRefused ==
    /\ last' # last
    /\ last'.kind = "verify"
    /\ last'.res = VerifyInvalidOrExpired

\* C29: a verify-2fa that fails with "Invalid or expired code" leaves
\* user_2fa_codes as it was: a wrong guess removes no active code of the
\* user and a failed attempt on an expired code does not remove its row.
C29_RefusedVerifyKeepsCodes ==
    [][ VerifyRefused => UNCHANGED user_2fa_codes ]_vars

\* a wrong guess was refused and the active code of user 1 is still stored
C29_Witness ==
    /\ last.kind = "verify" /\ last.res = VerifyInvalidOrExpired
    /\ last.h.case = "wrong"
    /\ ActiveCodesOf(1) # {}

\* an attempt on an expired code was refused and its row is still stored
ExpiredRowKept ==
    /\ last.kind = "verify" /\ last.res = VerifyInvalidOrExpired
    /\ last.h.case = "expired"
    /\ \E c \in CodesOf(1) : c.expires_at <= now

(* ============== properties: a code that was not delivered ============== *)
\* the login or resend-2fa of slot r answers in this step after its mail
\* failed (the transport rejected it, or the configuration was missing)
DeliveryFails(r) ==
    /\ IsIssuance(req[r]) /\ req[r].pc = "send_mail"
    /\ req'[r] = Idle
    /\ last'.h.sent \in {"failed", "unconfigured"}

\* the table is as the request's DELETE and INSERT left it: the one row of
\* the user is the code of the request, with its five minutes
KeepsWhatWasStored(r) ==
    /\ last'.res.status = 500
    /\ UNCHANGED user_2fa_codes
    /\ \E c \in user_2fa_codes' :
         /\ CodesOfOthers(user_2fa_codes', req[r].loc.uid) =
               user_2fa_codes' \ {c}
         /\ c.code = req[r].loc.code
         /\ c.expires_at = c.issued_at + CodeTtlMinutes

\* a code row less than five minutes old verifies, delivered or not
StoredCodeVerifies ==
    (last.kind = "verify" /\ last.h.live) => last.res.status = 200

\* C30: when the delivery of a login or resend-2fa fails, the request
\* answers with an error and nothing is rolled back: the earlier codes of
\* the user stay deleted, the new row stays stored, and it verifies when
\* submitted before its expiry.
C30_FailedDeliveryKeepsCode ==
    [](StoredCodeVerifies)
    /\ [][ \A r \in Slots : DeliveryFails(r) => KeepsWhatWasStored(r) ]_vars

\* a verify-2fa succeeded with a code that no mail ever carried
C30_Witness ==
    /\ last.kind = "verify" /\ last.res.status = 200
    /\ \E k \in consumed :
         /\ k.user_id = 1
         /\ <<"alice@example.com", k.code>> \notin outbox

====
